---- MODULE Spec2Model ----
(***************************************************************************)
(* Model of demo-code-interpreter-v2.js: the start-up configuration check, *)
(* main()'s try / catch / finally pipeline (Steps 1-9), the response       *)
(* reporter and the cleanup of the conversation and the agent version.     *)
(*                                                                         *)
(* The remote services and the two client libraries are the environment:   *)
(* every awaited call either resolves with a handle or rejects with an     *)
(* Error object carrying a string message.  A string is a sequence of      *)
(* lines, a message a sequence of tokens (includes() looks for a token).   *)
(***************************************************************************)
EXTENDS Naturals, Sequences, FiniteSets

VARIABLES
    env,           \* process.env: the two configuration values
    fs,            \* ./sales_data.csv: does it exist, can it be read
    pc,            \* position of the single thread of control
    credential,    \* has new DefaultAzureCredential() been constructed
    project,       \* main()'s local: the AIProjectClient, or null
    openAIClient,  \* main()'s local: the OpenAI client, or null
    agent,         \* main()'s local: the agent handle, or null
    conversation,  \* main()'s local: the conversation handle, or null
    response,      \* the const of Step 7, once responses.create resolved
    error,         \* the error bound by main()'s catch clause
    calls,         \* the remote calls made so far, in order
    out,           \* the console lines printed so far, in order
    exitCode,      \* the code the process ends with: 0 unless process.exit(1) ran
    mainPromise,   \* the promise main() returned
    caughtCount,   \* times main()'s catch clause was entered
    cleanupCount   \* times the finally block was entered

vars == <<env, fs, pc, credential, project, openAIClient, agent, conversation,
          response, error, calls, out, exitCode, mainPromise, caughtCount,
          cleanupCount>>

-----------------------------------------------------------------------------
(* Bounds of the model *)

MaxItems == 2      \* longest response.output list explored

-----------------------------------------------------------------------------
(* JavaScript values: [t |-> type tag, v |-> lines of text] *)

Undefined == [t |-> "undefined", v |-> <<>>]
Null      == [t |-> "null", v |-> <<>>]
Str(ls)   == [t |-> "string", v |-> ls]
Num(d)    == [t |-> "number", v |-> <<d>>]

EmptyString == Str(<<"">>)

\* !x is true of undefined, null, "" and 0
Falsy(x) ==
    \/ x.t \in {"undefined", "null"}
    \/ x = EmptyString
    \/ x = Num("0")

Truthy(x) == ~Falsy(x)

\* Faulty variant of OrElse: no fallback
OrElseNoFallback(a, b) == a

\* a || b
OrElse(a, b) == IF Truthy(a) THEN a ELSE b

\* `${x}`
Template(x) == IF x.t \in {"undefined", "null"} THEN <<x.t>> ELSE x.v

-----------------------------------------------------------------------------
(* Handles, errors, calls and console lines *)

AgentName == "DataAnalystAgent"
AgentVersions == {"1", "2"}
ConversationIds == {"conv_A", "conv_B"}

NullAgent        == [name |-> "", version |-> "", id |-> ""]
NullConversation == [id |-> ""]
NullClient       == "null"
NoResponse       == [present |-> FALSE, output |-> [t |-> "undefined", items |-> <<>>],
                     usage |-> FALSE]
NoError          == [thrown |-> FALSE, message |-> <<>>]

Err(msg) == [thrown |-> TRUE, message |-> msg]

\* What a rejected remote call or a throwing constructor may say
ErrorMessages ==
    { <<"DefaultAzureCredential", "authentication failed">>,
      <<"404", "resource", "not found">>,
      <<"createVersion", "request failed">>,
      <<"request timed out">> }

DeleteErrorMessages == { <<"request timed out">> }

\* String.prototype.includes, on the tokens of a message
Includes(msg, tok) == \E i \in DOMAIN msg : msg[i] = tok

Call(op, ok, conv, name, version) ==
    [op |-> op, ok |-> ok, conv |-> conv, name |-> name, version |-> version]

Line(tag, text) == [line |-> tag, text |-> text]

Printed(tag) == \E i \in DOMAIN out : out[i].line = tag

CountCalls(op) == Cardinality({i \in DOMAIN calls : calls[i].op = op})

-----------------------------------------------------------------------------
(* Initial state: the process has loaded the script, nothing has run *)

EnvValues == {Undefined, EmptyString, Str(<<"configured">>)}

Init ==
    /\ env \in [endpoint : EnvValues, model : EnvValues]
    /\ fs \in [exists : BOOLEAN, readable : BOOLEAN]
    /\ pc = "start"
    /\ credential = FALSE
    /\ project = NullClient
    /\ openAIClient = NullClient
    /\ agent = NullAgent
    /\ conversation = NullConversation
    /\ response = NoResponse
    /\ error = NoError
    /\ calls = <<>>
    /\ out = <<>>
    /\ exitCode = 0
    /\ mainPromise = "none"
    /\ caughtCount = 0
    /\ cleanupCount = 0

\* process.exit(1)
ProcessExit ==
    /\ pc' = "exited"
    /\ exitCode' = 1

\* a throw or a rejected await inside main()'s try block
Throw(e) ==
    /\ pc' = "catch"
    /\ error' = e

-----------------------------------------------------------------------------
(* Top level, lines 29-37, and the call of main(), line 246 *)

EnvOk == ~(Falsy(env.endpoint) \/ Falsy(env.model))

\* Faulty variant of CheckEnv: && for ||, so the process exits only when both
\* values are absent
CheckEnvBothAbsent ==
    /\ pc = "start"
    /\ IF Falsy(env.endpoint) /\ Falsy(env.model)
       THEN /\ out' = out \o << Line("Error: Environment variables not set properly!", <<>>),
                                Line("Please set AZURE_FOUNDRY_PROJECT_ENDPOINT and AZURE_FOUNDRY_GPT_MODEL", <<>>) >>
            /\ ProcessExit
       ELSE /\ pc' = "main"
            /\ UNCHANGED <<out, exitCode>>
    /\ UNCHANGED <<env, fs, credential, project, openAIClient, agent, conversation,
                   response, error, calls, mainPromise, caughtCount, cleanupCount>>

CheckEnv ==
    /\ pc = "start"
    /\ IF Falsy(env.endpoint) \/ Falsy(env.model)
       THEN /\ out' = out \o << Line("Error: Environment variables not set properly!", <<>>),
                                Line("Please set AZURE_FOUNDRY_PROJECT_ENDPOINT and AZURE_FOUNDRY_GPT_MODEL", <<>>) >>
            /\ ProcessExit
       ELSE /\ pc' = "main"
            /\ UNCHANGED <<out, exitCode>>
    /\ UNCHANGED <<env, fs, credential, project, openAIClient, agent, conversation,
                   response, error, calls, mainPromise, caughtCount, cleanupCount>>

\* main() up to the try block, lines 39-50
MainStart ==
    /\ pc = "main"
    /\ mainPromise' = "pending"
    /\ out' = out \o << Line("AZURE AI FOUNDRY - Code Interpreter Demo v2 (JavaScript)", <<>>),
                        Line("Endpoint", Template(env.endpoint)),
                        Line("Model Deployment", Template(env.model)) >>
    /\ agent' = NullAgent
    /\ project' = NullClient
    /\ openAIClient' = NullClient
    /\ conversation' = NullConversation
    /\ pc' = "step1"
    /\ UNCHANGED <<env, fs, credential, response, error, calls, exitCode,
                   caughtCount, cleanupCount>>

-----------------------------------------------------------------------------
(* The try block, lines 52-204 *)

\* Faulty variant of Step1: no existsSync check, readFileSync raises ENOENT
Step1NoExistsCheck ==
    /\ pc = "step1"
    /\ IF fs.exists /\ fs.readable
       THEN pc' = "step2" /\ UNCHANGED error
       ELSE Throw(Err(<<"ENOENT", "no such file or directory">>))
    /\ UNCHANGED <<env, fs, credential, project, openAIClient, agent, conversation,
                   response, calls, out, exitCode, mainPromise, caughtCount,
                   cleanupCount>>

\* Step 1: existsSync, then readFileSync
Step1 ==
    /\ pc = "step1"
    /\ IF ~fs.exists
       THEN /\ out' = out \o << Line("Error: File not found", <<"./sales_data.csv">>),
                                Line("Please ensure sales_data.csv exists in the current directory.", <<>>) >>
            /\ ProcessExit
            /\ UNCHANGED error
       ELSE /\ out' = Append(out, Line("Found data file", <<"./sales_data.csv">>))
            /\ UNCHANGED exitCode
            /\ IF fs.readable
               THEN pc' = "step2" /\ UNCHANGED error
               ELSE Throw(Err(<<"EACCES", "permission denied">>))
    /\ UNCHANGED <<env, fs, credential, project, openAIClient, agent, conversation,
                   response, calls, mainPromise, caughtCount, cleanupCount>>

\* Step 2: the two constructors; either may throw
Step2 ==
    /\ pc = "step2"
    /\ \/ /\ credential' = TRUE
          /\ project' = "project"
          /\ out' = out \o << Line("Initialising Azure AI Projects client...", <<>>),
                              Line("Client initialised.", <<>>) >>
          /\ pc' = "step3"
          /\ UNCHANGED error
       \/ \E m \in ErrorMessages :
            /\ out' = Append(out, Line("Initialising Azure AI Projects client...", <<>>))
            /\ credential' \in {FALSE, TRUE}
            /\ Throw(Err(m))
            /\ UNCHANGED project
    /\ UNCHANGED <<env, fs, openAIClient, agent, conversation, response, calls,
                   exitCode, mainPromise, caughtCount, cleanupCount>>

\* Step 3: openAIClient = await project.getOpenAIClient()
Step3 ==
    /\ pc = "step3"
    /\ \/ /\ calls' = Append(calls, Call("getOpenAIClient", TRUE, "", "", ""))
          /\ openAIClient' = "openai"
          /\ out' = out \o << Line("Getting OpenAI client...", <<>>),
                              Line("OpenAI client ready.", <<>>) >>
          /\ pc' = "step4"
          /\ UNCHANGED error
       \/ \E m \in ErrorMessages :
            /\ calls' = Append(calls, Call("getOpenAIClient", FALSE, "", "", ""))
            /\ out' = Append(out, Line("Getting OpenAI client...", <<>>))
            /\ Throw(Err(m))
            /\ UNCHANGED openAIClient
    /\ UNCHANGED <<env, fs, credential, project, agent, conversation, response,
                   exitCode, mainPromise, caughtCount, cleanupCount>>

\* Faulty variant of Step4: a rejected createVersion is swallowed and the
\* pipeline goes on to Step 5
Step4ContinuesAfterFailure ==
    /\ pc = "step4"
    /\ \/ \E v \in AgentVersions :
            /\ calls' = Append(calls, Call("createVersion", TRUE, "", AgentName, v))
            /\ agent' = [name |-> AgentName, version |-> v, id |-> "id"]
       \/ /\ calls' = Append(calls, Call("createVersion", FALSE, "", AgentName, ""))
          /\ UNCHANGED agent
    /\ pc' = "step5"
    /\ UNCHANGED <<env, fs, credential, project, openAIClient, conversation, response,
                   error, out, exitCode, mainPromise, caughtCount, cleanupCount>>

\* Step 4: agent = await project.agents.createVersion("DataAnalystAgent", ...)
Step4 ==
    /\ pc = "step4"
    /\ \/ \E v \in AgentVersions :
            /\ calls' = Append(calls, Call("createVersion", TRUE, "", AgentName, v))
            /\ agent' = [name |-> AgentName, version |-> v, id |-> "id"]
            /\ out' = out \o << Line("Creating registered AI Agent with Code Interpreter...", <<>>),
                                Line("Agent ID", <<"id">>),
                                Line("Agent Name", <<AgentName>>),
                                Line("Agent Version", <<v>>) >>
            /\ pc' = "step5"
            /\ UNCHANGED error
       \/ \E m \in ErrorMessages :
            /\ calls' = Append(calls, Call("createVersion", FALSE, "", AgentName, ""))
            /\ out' = Append(out, Line("Creating registered AI Agent with Code Interpreter...", <<>>))
            /\ Throw(Err(m))
            /\ UNCHANGED agent
    /\ UNCHANGED <<env, fs, credential, project, openAIClient, conversation, response,
                   exitCode, mainPromise, caughtCount, cleanupCount>>

\* Step 5: conversation = await openAIClient.conversations.create()
Step5 ==
    /\ pc = "step5"
    /\ \/ \E c \in ConversationIds :
            /\ calls' = Append(calls, Call("conversations.create", TRUE, c, "", ""))
            /\ conversation' = [id |-> c]
            /\ out' = out \o << Line("Creating conversation thread...", <<>>),
                                Line("Conversation created", <<c>>) >>
            /\ pc' = "step6"
            /\ UNCHANGED error
       \/ \E m \in ErrorMessages :
            /\ calls' = Append(calls, Call("conversations.create", FALSE, "", "", ""))
            /\ out' = Append(out, Line("Creating conversation thread...", <<>>))
            /\ Throw(Err(m))
            /\ UNCHANGED conversation
    /\ UNCHANGED <<env, fs, credential, project, openAIClient, agent, response,
                   exitCode, mainPromise, caughtCount, cleanupCount>>

\* Step 6: the prompt is built and announced
Step6 ==
    /\ pc = "step6"
    /\ out' = out \o << Line("USER MESSAGE:", <<>>),
                        Line("Analyzing sales_data.csv with Code Interpreter...", <<>>) >>
    /\ pc' = "step7"
    /\ UNCHANGED <<env, fs, credential, project, openAIClient, agent, conversation,
                   response, error, calls, exitCode, mainPromise, caughtCount,
                   cleanupCount>>

-----------------------------------------------------------------------------
(* The response object and its output items *)

CodeInterpreterCall == Str(<<"code_interpreter_call">>)

Item(type, code, id, cid) == [type |-> type, code |-> code, id |-> id, container_id |-> cid]

\* The output items explored: plain items, tool-invocation items with every
\* kind of code field, and tool-invocation items lacking identifiers
Items ==
    { Item(Str(<<"message">>), Undefined, Str(<<"msg_1">>), Undefined),
      Item(Undefined, Undefined, Undefined, Undefined) }
    \cup { Item(CodeInterpreterCall, c, Str(<<"ci_1">>), Str(<<"cntr_1">>)) :
             c \in { Undefined, Null, EmptyString, Num("42"),
                     Str(<<"import pandas as pd">>),
                     Str(<<"total = df.sum()", "print(total)">>) } }
    \cup { Item(CodeInterpreterCall, Str(<<"print(1)">>), i, c) :
             i \in {Undefined, Str(<<"ci_1">>)}, c \in {Undefined, Str(<<"cntr_1">>)} }

SeqsUpTo(S, n) == UNION { [1..k -> S] : k \in 0..n }

Outputs ==
    { [t |-> "undefined", items |-> <<>>],     \* no output field
      [t |-> "string", items |-> <<>>] }       \* a truthy output that is no array
    \cup { [t |-> "array", items |-> s] : s \in SeqsUpTo(Items, MaxItems) }

Responses == [present : {TRUE}, output : Outputs, usage : BOOLEAN]

\* Faulty variant of Step7: a rejected responses.create is swallowed and the
\* pipeline goes on to Step 8
Step7ContinuesAfterFailure ==
    /\ pc = "step7"
    /\ \/ \E r \in Responses :
            /\ calls' = Append(calls, Call("responses.create", TRUE, conversation.id,
                                           agent.name, ""))
            /\ response' = r
       \/ /\ calls' = Append(calls, Call("responses.create", FALSE, conversation.id,
                                         agent.name, ""))
          /\ response' = [present |-> TRUE, output |-> [t |-> "undefined", items |-> <<>>],
                          usage |-> FALSE]
    /\ pc' = "step8"
    /\ UNCHANGED <<env, fs, credential, project, openAIClient, agent, conversation,
                   error, out, exitCode, mainPromise, caughtCount, cleanupCount>>

\* Step 7: response = await openAIClient.responses.create(...)
Step7 ==
    /\ pc = "step7"
    /\ \/ \E r \in Responses :
            /\ calls' = Append(calls, Call("responses.create", TRUE, conversation.id,
                                           agent.name, ""))
            /\ response' = r
            /\ out' = Append(out, Line("Running registered Agent via Responses API...", <<>>))
            /\ pc' = "step8"
            /\ UNCHANGED error
       \/ \E m \in ErrorMessages :
            /\ calls' = Append(calls, Call("responses.create", FALSE, conversation.id,
                                           agent.name, ""))
            /\ out' = Append(out, Line("Running registered Agent via Responses API...", <<>>))
            /\ Throw(Err(m))
            /\ UNCHANGED response
    /\ UNCHANGED <<env, fs, credential, project, openAIClient, agent, conversation,
                   exitCode, mainPromise, caughtCount, cleanupCount>>

\* Step 8: the response text
Step8 ==
    /\ pc = "step8"
    /\ out' = out \o << Line("AGENT RESPONSE:", <<>>), Line("output_text", <<>>) >>
    /\ pc' = "step9"
    /\ UNCHANGED <<env, fs, credential, project, openAIClient, agent, conversation,
                   response, error, calls, exitCode, mainPromise, caughtCount,
                   cleanupCount>>

-----------------------------------------------------------------------------
(* Step 9, the response reporter, lines 164-204 *)

\* code.split('\n').map(line => "  " + line).join('\n'), a string being its lines
IndentCode(code) == [i \in DOMAIN code.v |-> "  " \o code.v[i]]

\* The body of the for loop for one item: the lines it prints, whether it
\* sets codeInterpreterUsed, and the TypeError it raises, if any
ReportItem(item) ==
    LET head == << Line("Output type", Template(item.type)) >>
        meta == << Line("CODE INTERPRETER WAS USED!", <<>>),
                   Line("Container ID", Template(OrElse(item.container_id, Str(<<"N/A">>)))),
                   Line("Code Interpreter ID", Template(OrElse(item.id, Str(<<"N/A">>)))) >>
    IN  IF item.type = CodeInterpreterCall
        THEN IF Truthy(item.code)
             THEN IF item.code.t = "string"
                  THEN [lines |-> head \o meta \o
                                  << Line("Python Code Executed:", <<>>),
                                     Line("code", IndentCode(item.code)) >>,
                        used |-> TRUE, error |-> NoError]
                  ELSE [lines |-> head \o meta \o << Line("Python Code Executed:", <<>>) >>,
                        used |-> TRUE,
                        error |-> Err(<<"item.code.split is not a function">>)]
             ELSE [lines |-> head \o meta, used |-> TRUE, error |-> NoError]
        ELSE [lines |-> head, used |-> FALSE, error |-> NoError]

\* The for loop over response.output from item i on, followed by the
\* "not found" line when no item set codeInterpreterUsed
RECURSIVE ReportItems(_, _, _)
ReportItems(items, i, used) ==
    IF i > Len(items)
    THEN [lines |-> IF used THEN <<>>
                    ELSE << Line("No code_interpreter_call found in output.", <<>>) >>,
          error |-> NoError]
    ELSE LET r == ReportItem(items[i])
         IN  IF r.error.thrown
             THEN [lines |-> r.lines, error |-> r.error]
             ELSE LET rest == ReportItems(items, i + 1, used \/ r.used)
                  IN  [lines |-> r.lines \o rest.lines, error |-> rest.error]

\* Faulty variant of ReportOutput: the loop runs over (response.output || [])
\* whatever response.output is
ReportOutputNoGuard(output) == ReportItems(output.items, 1, FALSE)

\* if (response.output && Array.isArray(response.output)) { ... }
ReportOutput(output) ==
    IF output.t = "array"
    THEN ReportItems(output.items, 1, FALSE)
    ELSE [lines |-> <<>>, error |-> NoError]

FullResponseStructure(r) ==
    << Line("Full Response Structure:", <<>>),
       Line("Response ID", <<"resp_1">>),
       Line("Model", <<"model">>),
       Line("Output items", <<>>) >>
    \o (IF r.usage
        THEN << Line("Input tokens", <<>>), Line("Output tokens", <<>>) >>
        ELSE <<>>)

Step9 ==
    /\ pc = "step9"
    /\ LET rep == ReportOutput(response.output)
           banner == << Line("RESPONSE ANALYSIS (Proof of Code Interpreter):", <<>>) >>
       IN  IF rep.error.thrown
           THEN /\ out' = out \o banner \o rep.lines
                /\ Throw(rep.error)
           ELSE /\ out' = out \o banner \o rep.lines \o FullResponseStructure(response)
                             \o << Line("Analysis completed!", <<>>) >>
                /\ pc' = "finally"
                /\ UNCHANGED error
    /\ UNCHANGED <<env, fs, credential, project, openAIClient, agent, conversation,
                   response, calls, exitCode, mainPromise, caughtCount, cleanupCount>>

-----------------------------------------------------------------------------
(* catch (error), lines 206-217 *)

Hints(msg) ==
    (IF Includes(msg, "DefaultAzureCredential")
     THEN << Line("Tip: Make sure you're logged in with 'az login'", <<>>) >> ELSE <<>>)
    \o (IF Includes(msg, "404") \/ Includes(msg, "not found")
        THEN << Line("Tip: Check that your AZURE_FOUNDRY_PROJECT_ENDPOINT is correct", <<>>) >>
        ELSE <<>>)
    \o (IF Includes(msg, "createVersion")
        THEN << Line("Tip: Agent creation failed. Check your model deployment name.", <<>>) >>
        ELSE <<>>)

\* Faulty variant of Catch: the handler returns from main(), the cleanup being
\* the tail of the function and not a finally block
CatchSkipsCleanup ==
    /\ pc = "catch"
    /\ caughtCount' = caughtCount + 1
    /\ out' = out \o << Line("Error occurred:", error.message) >> \o Hints(error.message)
    /\ pc' = "settled"
    /\ mainPromise' = "fulfilled"
    /\ UNCHANGED <<env, fs, credential, project, openAIClient, agent, conversation,
                   response, error, calls, exitCode, cleanupCount>>

Catch ==
    /\ pc = "catch"
    /\ caughtCount' = caughtCount + 1
    /\ out' = out \o << Line("Error occurred:", error.message) >> \o Hints(error.message)
    /\ pc' = "finally"
    /\ UNCHANGED <<env, fs, credential, project, openAIClient, agent, conversation,
                   response, error, calls, exitCode, mainPromise, cleanupCount>>

-----------------------------------------------------------------------------
(* finally, lines 219-242 *)

Finally ==
    /\ pc = "finally"
    /\ cleanupCount' = cleanupCount + 1
    /\ out' = Append(out, Line("Cleaning up resources...", <<>>))
    /\ pc' = "deleteConversation"
    /\ UNCHANGED <<env, fs, credential, project, openAIClient, agent, conversation,
                   response, error, calls, exitCode, mainPromise, caughtCount>>

\* Faulty variant of DeleteConversation: no try/catch of its own, a rejected
\* delete leaves the finally block and rejects main()
DeleteConversationPropagates ==
    /\ pc = "deleteConversation"
    /\ IF conversation # NullConversation /\ openAIClient # NullClient
       THEN \/ /\ calls' = Append(calls, Call("conversations.delete", TRUE,
                                              conversation.id, "", ""))
               /\ out' = Append(out, Line("Conversation deleted.", <<>>))
               /\ pc' = "deleteAgent"
               /\ UNCHANGED <<error, mainPromise>>
            \/ \E m \in DeleteErrorMessages :
               /\ calls' = Append(calls, Call("conversations.delete", FALSE,
                                              conversation.id, "", ""))
               /\ error' = Err(m)
               /\ mainPromise' = "rejected"
               /\ pc' = "settled"
               /\ UNCHANGED out
       ELSE /\ pc' = "deleteAgent"
            /\ UNCHANGED <<calls, out, error, mainPromise>>
    /\ UNCHANGED <<env, fs, credential, project, openAIClient, agent, conversation,
                   response, exitCode, caughtCount, cleanupCount>>

\* if (conversation && openAIClient) { try { delete } catch { note } }
DeleteConversation ==
    /\ pc = "deleteConversation"
    /\ IF conversation # NullConversation /\ openAIClient # NullClient
       THEN \/ /\ calls' = Append(calls, Call("conversations.delete", TRUE,
                                              conversation.id, "", ""))
               /\ out' = Append(out, Line("Conversation deleted.", <<>>))
            \/ \E m \in DeleteErrorMessages :
               /\ calls' = Append(calls, Call("conversations.delete", FALSE,
                                              conversation.id, "", ""))
               /\ out' = Append(out, Line("Note: Could not delete conversation:", m))
       ELSE UNCHANGED <<calls, out>>
    /\ pc' = "deleteAgent"
    /\ UNCHANGED <<env, fs, credential, project, openAIClient, agent, conversation,
                   response, error, exitCode, mainPromise, caughtCount, cleanupCount>>

\* Faulty variant of DeleteAgent: the guard of the conversation deletion was
\* copied, if (conversation && project)
DeleteAgentWrongGuard ==
    /\ pc = "deleteAgent"
    /\ IF conversation # NullConversation /\ project # NullClient
       THEN \/ /\ calls' = Append(calls, Call("deleteVersion", TRUE, "",
                                              agent.name, agent.version))
               /\ out' = Append(out, Line("Agent deleted", <<agent.name, agent.version>>))
            \/ \E m \in DeleteErrorMessages :
               /\ calls' = Append(calls, Call("deleteVersion", FALSE, "",
                                              agent.name, agent.version))
               /\ out' = Append(out, Line("Note: Could not delete agent:", m))
       ELSE UNCHANGED <<calls, out>>
    /\ pc' = "settled"
    /\ mainPromise' = "fulfilled"
    /\ UNCHANGED <<env, fs, credential, project, openAIClient, agent, conversation,
                   response, error, exitCode, caughtCount, cleanupCount>>

\* Faulty variant of DeleteAgent: a rejected deleteVersion is tried once more
DeleteAgentRetries ==
    /\ pc = "deleteAgent"
    /\ IF agent # NullAgent /\ project # NullClient
       THEN \/ /\ calls' = Append(calls, Call("deleteVersion", TRUE, "",
                                              agent.name, agent.version))
               /\ out' = Append(out, Line("Agent deleted", <<agent.name, agent.version>>))
            \/ \E m \in DeleteErrorMessages :
               /\ calls' = calls \o << Call("deleteVersion", FALSE, "", agent.name, agent.version),
                                       Call("deleteVersion", FALSE, "", agent.name, agent.version) >>
               /\ out' = Append(out, Line("Note: Could not delete agent:", m))
       ELSE UNCHANGED <<calls, out>>
    /\ pc' = "settled"
    /\ mainPromise' = "fulfilled"
    /\ UNCHANGED <<env, fs, credential, project, openAIClient, agent, conversation,
                   response, error, exitCode, caughtCount, cleanupCount>>

\* if (agent && project) { try { deleteVersion } catch { note } }
DeleteAgent ==
    /\ pc = "deleteAgent"
    /\ IF agent # NullAgent /\ project # NullClient
       THEN \/ /\ calls' = Append(calls, Call("deleteVersion", TRUE, "",
                                              agent.name, agent.version))
               /\ out' = Append(out, Line("Agent deleted", <<agent.name, agent.version>>))
            \/ \E m \in DeleteErrorMessages :
               /\ calls' = Append(calls, Call("deleteVersion", FALSE, "",
                                              agent.name, agent.version))
               /\ out' = Append(out, Line("Note: Could not delete agent:", m))
       ELSE UNCHANGED <<calls, out>>
    /\ pc' = "settled"
    /\ mainPromise' = "fulfilled"
    /\ UNCHANGED <<env, fs, credential, project, openAIClient, agent, conversation,
                   response, error, exitCode, caughtCount, cleanupCount>>

\* Faulty variant of Exit: a rejected main() ends the process with code 1
ExitFailsOnError ==
    /\ pc = "settled"
    /\ out' = IF mainPromise = "rejected"
              THEN Append(out, Line("console.error", error.message))
              ELSE out
    /\ exitCode' = IF mainPromise = "rejected" \/ caughtCount > 0 THEN 1 ELSE exitCode
    /\ pc' = IF mainPromise = "rejected" \/ caughtCount > 0 THEN "exited" ELSE "done"
    /\ UNCHANGED <<env, fs, credential, project, openAIClient, agent, conversation,
                   response, error, calls, mainPromise, caughtCount, cleanupCount>>

\* main().catch(console.error), line 246, and the end of the process
Exit ==
    /\ pc = "settled"
    /\ out' = IF mainPromise = "rejected"
              THEN Append(out, Line("console.error", error.message))
              ELSE out
    /\ pc' = "done"
    /\ UNCHANGED <<env, fs, credential, project, openAIClient, agent, conversation,
                   response, error, calls, exitCode, mainPromise, caughtCount,
                   cleanupCount>>

-----------------------------------------------------------------------------

Next ==
    \/ CheckEnv
    \/ MainStart
    \/ Step1
    \/ Step2
    \/ Step3
    \/ Step4
    \/ Step5
    \/ Step6
    \/ Step7
    \/ Step8
    \/ Step9
    \/ Catch
    \/ Finally
    \/ DeleteConversation
    \/ DeleteAgent
    \/ Exit

Spec == Init /\ [][Next]_vars

\* One thread of control and every awaited call settles: a step that can be
\* taken is eventually taken
FairSpec == Spec /\ WF_vars(Next)

-----------------------------------------------------------------------------
(* Vocabulary of the properties *)

MainCalled == mainPromise # "none"

Terminated == pc \in {"done", "exited"}

PastFinally == pc \in {"deleteConversation", "deleteAgent", "settled", "done"}

MainReturned == pc \in {"settled", "done"}

InCleanup == pc \in {"finally", "deleteConversation", "deleteAgent", "settled", "done"}

PipelineOps == {"getOpenAIClient", "createVersion", "conversations.create",
                "responses.create"}

DeleteOps == {"conversations.delete", "deleteVersion"}

FailedCall(op) == \E i \in DOMAIN calls : calls[i].op = op /\ ~calls[i].ok

Attempted(op) == \E i \in DOMAIN calls : calls[i].op = op

CountLines(tag) == Cardinality({i \in DOMAIN out : out[i].line = tag})

PrintedLine(l) == \E i \in DOMAIN out : out[i] = l

ConfigError == "Error: Environment variables not set properly!"
FileError == "Error: File not found"
UsedLine == "CODE INTERPRETER WAS USED!"
NotFoundLine == "No code_interpreter_call found in output."
AnalysisBanner == "RESPONSE ANALYSIS (Proof of Code Interpreter):"
CompletedLine == "Analysis completed!"

-----------------------------------------------------------------------------
(* C1 *)

\* C1 as stated: in every run of main() that has ended, successful or failed
\* at any point, the cleanup phase was entered exactly once.
C1_CleanupOncePerRun ==
    (MainCalled /\ Terminated) => cleanupCount = 1

\* C1, amended: the cleanup phase is entered exactly once in every run of
\* main() that gets past the data-file check, whether the pipeline succeeded,
\* failed after partial setup or failed after full setup; a run that ends at
\* the missing-file check (process.exit(1) inside the try block) never enters
\* it, and that is the only way main() ends without cleanup.
C1_CleanupOncePastFileCheck ==
    /\ cleanupCount = (IF PastFinally THEN 1 ELSE 0)
    /\ pc = "done" => cleanupCount = 1
    /\ (MainCalled /\ pc = "exited") => (~fs.exists /\ cleanupCount = 0)

\* A run that failed after partial setup (agent created, conversation creation
\* failed) and has ended after one cleanup.
C1_Witness ==
    /\ pc = "done"
    /\ cleanupCount = 1
    /\ agent # NullAgent
    /\ conversation = NullConversation
    /\ FailedCall("conversations.create")

-----------------------------------------------------------------------------
(* C2 *)

\* C2: whenever both handles exist at cleanup, once main() has returned both
\* conversations.delete and agents.deleteVersion have been attempted, whatever
\* the outcome of either.
C2_DeletionsIndependent ==
    (MainReturned /\ conversation # NullConversation /\ agent # NullAgent)
        => /\ CountCalls("conversations.delete") = 1
           /\ CountCalls("deleteVersion") = 1

\* The conversation could not be deleted and the agent deletion was attempted
\* all the same.
C2_Witness ==
    /\ pc = "done"
    /\ FailedCall("conversations.delete")
    /\ Attempted("deleteVersion")

-----------------------------------------------------------------------------
(* C3 *)

\* C3: with a required environment variable absent (or empty) the process
\* prints the configuration error and exits with code 1 before main() starts:
\* no client is constructed and no remote call is ever made.
C3_MissingConfigFailsFast ==
    ~EnvOk =>
        /\ calls = <<>>
        /\ ~MainCalled
        /\ ~credential
        /\ project = NullClient
        /\ pc \in {"start", "exited"}
        /\ pc = "exited" => (exitCode = 1 /\ Printed(ConfigError))

\* Only the model deployment name is absent and the process has exited.
C3_Witness ==
    /\ Truthy(env.endpoint)
    /\ Falsy(env.model)
    /\ pc = "exited"
    /\ exitCode = 1

-----------------------------------------------------------------------------
(* C4 *)

\* C4: with the configuration present and ./sales_data.csv absent, the process
\* prints the file-not-found error and exits with code 1 at Step 1: no
\* credential or project client is constructed, no remote resource is created
\* and no remote call is made.
C4_MissingFileFailsFast ==
    (EnvOk /\ ~fs.exists) =>
        /\ calls = <<>>
        /\ ~credential
        /\ project = NullClient
        /\ openAIClient = NullClient
        /\ agent = NullAgent
        /\ conversation = NullConversation
        /\ pc \in {"start", "main", "step1", "exited"}
        /\ pc = "exited" => (exitCode = 1 /\ Printed(FileError))

\* main() ran, the file was absent and the process has exited.
C4_Witness ==
    /\ EnvOk
    /\ ~fs.exists
    /\ MainCalled
    /\ pc = "exited"
    /\ exitCode = 1

-----------------------------------------------------------------------------
(* C5 *)

Failure == error.thrown \/ FailedCall("conversations.delete") \/ FailedCall("deleteVersion")

NormalTermination ==
    /\ pc = "done"
    /\ exitCode = 0
    /\ cleanupCount = 1
    /\ mainPromise = "fulfilled"

\* C5: exit code 1 occurs only for missing configuration or a missing data
\* file, main() never rejects, and after any failure in the pipeline or in
\* cleanup the process reaches normal termination, after the cleanup phase.
C5_FailuresEndNormally ==
    /\ [](exitCode = 1 => (~EnvOk \/ ~fs.exists))
    /\ [](mainPromise # "rejected")
    /\ [](pc = "done" => NormalTermination)
    /\ (Failure ~> NormalTermination)

\* The pipeline failed, both deletions failed, and the process ended normally.
C5_Witness ==
    /\ NormalTermination
    /\ caughtCount = 1
    /\ FailedCall("conversations.delete")
    /\ FailedCall("deleteVersion")

-----------------------------------------------------------------------------
(* C6 *)

\* C6: once responses.create has failed, no later pipeline step runs (no agent
\* response, no response analysis, no completion line), the request is not
\* sent again, the error is reported by the catch clause, and the only calls
\* that follow are the deletions of the cleanup phase.
C6_DispatchFailureAborts ==
    FailedCall("responses.create") =>
        /\ response = NoResponse
        /\ ~Printed("AGENT RESPONSE:")
        /\ ~Printed(AnalysisBanner)
        /\ ~Printed(CompletedLine)
        /\ CountCalls("responses.create") = 1
        /\ pc = "catch" \/ InCleanup
        /\ InCleanup => (caughtCount = 1 /\ CountLines("Error occurred:") = 1)
        /\ \A i, j \in DOMAIN calls :
              (calls[i].op = "responses.create" /\ i < j) => calls[j].op \in DeleteOps
        /\ pc = "done" => cleanupCount = 1

\* responses.create failed and the run has ended.
C6_Witness ==
    /\ FailedCall("responses.create")
    /\ pc = "done"
    /\ Attempted("conversations.delete")

-----------------------------------------------------------------------------
(* C7 *)

ReturnedEarlier(i, op) ==
    \E j \in 1..(i - 1) :
        /\ calls[j].op = op
        /\ calls[j].ok
        /\ op = "conversations.create" => calls[j].conv = calls[i].conv
        /\ op = "createVersion" => calls[j].name = calls[i].name

\* C7: responses.create and conversations.delete are only called with the id
\* of a conversation that conversations.create returned earlier in the run,
\* responses.create and deleteVersion only name an agent (and version) that
\* createVersion returned earlier, and each deletion is called at most once.
C7_HandlesExistAndDeletedOnce ==
    /\ \A i \in DOMAIN calls :
          /\ calls[i].op \in {"responses.create", "conversations.delete"}
                => ReturnedEarlier(i, "conversations.create")
          /\ calls[i].op \in {"responses.create", "deleteVersion"}
                => ReturnedEarlier(i, "createVersion")
          /\ calls[i].op = "deleteVersion"
                => \E j \in 1..(i - 1) :
                      /\ calls[j].op = "createVersion"
                      /\ calls[j].ok
                      /\ calls[j].version = calls[i].version
    /\ CountCalls("conversations.delete") <= 1
    /\ CountCalls("deleteVersion") <= 1

\* Both handles were created, used by responses.create and deleted, the agent
\* deletion having failed.
C7_Witness ==
    /\ pc = "done"
    /\ Attempted("responses.create")
    /\ Attempted("conversations.delete")
    /\ FailedCall("deleteVersion")

-----------------------------------------------------------------------------
(* C8 and C9: the response reporter *)

Reported == Printed(AnalysisBanner)

IsArray == response.output.t = "array"

OutItems == response.output.items

CallItems == {i \in DOMAIN OutItems : OutItems[i].type = CodeInterpreterCall}

\* a truthy code field that is no string: item.code.split is not a function
BadCode(item) ==
    /\ item.type = CodeInterpreterCall
    /\ Truthy(item.code)
    /\ item.code.t # "string"

StringCode(item) == Truthy(item.code) /\ item.code.t = "string"

CodePrinted(item) == PrintedLine(Line("code", [k \in DOMAIN item.code.v |-> "  " \o item.code.v[k]]))

-----------------------------------------------------------------------------
(* C10 *)

\* C10: each of the four remote operations of the pipeline is invoked at most
\* once, a failed one is the last of them to be invoked, and its error is
\* caught once and logged once.
C10_CaughtOnceNoRetry ==
    /\ \A op \in PipelineOps : CountCalls(op) <= 1
    /\ \A i, j \in DOMAIN calls :
          (calls[i].op \in PipelineOps /\ ~calls[i].ok /\ i < j)
              => calls[j].op \in DeleteOps
    /\ caughtCount <= 1
    /\ (\E op \in PipelineOps : FailedCall(op)) =>
          /\ pc = "catch" \/ InCleanup
          /\ error.thrown
          /\ InCleanup => (caughtCount = 1 /\ PrintedLine(Line("Error occurred:", error.message))
                           /\ CountLines("Error occurred:") = 1)

\* createVersion failed, the error was logged, and the run has ended.
C10_Witness ==
    /\ pc = "done"
    /\ FailedCall("createVersion")
    /\ caughtCount = 1

-----------------------------------------------------------------------------
(* C11 *)

SucceededCall(op) == \E i \in DOMAIN calls : calls[i].op = op /\ calls[i].ok

\* C11: once main() has returned (the run reached the try block and did not
\* exit at the missing-file check), a deletion of the conversation has been
\* attempted if and only if conversations.create succeeded, and a deletion of
\* the agent version if and only if createVersion succeeded, each for the
\* handle that was created; no deletion is attempted before the cleanup phase.
C11_DeletionsMatchCreations ==
    /\ MainReturned =>
          /\ Attempted("conversations.delete") <=> SucceededCall("conversations.create")
          /\ Attempted("deleteVersion") <=> SucceededCall("createVersion")
    /\ \A i \in DOMAIN calls :
          /\ calls[i].op = "conversations.delete"
                => (PastFinally /\ calls[i].conv = conversation.id
                    /\ conversation # NullConversation)
          /\ calls[i].op = "deleteVersion"
                => (MainReturned /\ agent # NullAgent /\ calls[i].name = agent.name
                    /\ calls[i].version = agent.version)
    /\ ~InCleanup => (~Attempted("conversations.delete") /\ ~Attempted("deleteVersion"))

\* The agent was created, conversation creation failed, and the run ended
\* with an agent deletion attempt only.
C11_Witness ==
    /\ pc = "done"
    /\ SucceededCall("createVersion")
    /\ FailedCall("conversations.create")
    /\ Attempted("deleteVersion")
    /\ ~Attempted("conversations.delete")

====
